---- MODULE Spec2Model ----
(***************************************************************************)
(* Model of gui/mouse.go: GUI.mouseButtonCallback, the xterm mouse         *)
(* reporting of the terminal emulator.  The callback reads the terminal's  *)
(* mouse mode, the window's cursor position and the renderer's cell size,  *)
(* formats a packet with fmt.Sprintf("\x1b[M%c%c%c", ...) and hands its    *)
(* bytes to terminal.Write, or panics on the modes it does not implement.  *)
(*                                                                         *)
(* Abstractions: pixel positions and cell sizes are integers (the code     *)
(* holds them as floating point; floor(px/w) of a real px equals the       *)
(* floor division of floor(px) by an integer w); coordinates stay far      *)
(* below 2^31, so the int -> rune conversion never truncates.              *)
(***************************************************************************)
EXTENDS Integers, Naturals, Sequences, FiniteSets, TLC

VARIABLES
    mouseMode,  \* gui.terminal.GetMouseMode()
    cursorX,    \* px of w.GetCursorPos()
    cursorY,    \* py of w.GetCursorPos()
    call,       \* arguments of the invocation of the callback just made
    outcome,    \* "idle" (the event loop waits for an event), "returned"
                \* (the callback has just returned) or "panic"
    packet,     \* the bytes that invocation handed to gui.terminal.Write
    writes,     \* the number of gui.terminal.Write calls of that invocation
    writeErr    \* whether gui.terminal.Write returned an error

vars == <<mouseMode, cursorX, cursorY, call, outcome, packet, writes, writeErr>>

----------------------------------------------------------------------------
(* Bounds of the model *)

MaxButton == 4      \* buttons 0..MaxButton: glfw.MouseButton1..MouseButton5
MaxAction == 2      \* actions 0..MaxAction: Release, Press, Repeat
MaxMod == 15        \* modifier masks 0..MaxMod: Shift|Control|Alt|Super
CellWidth == 10     \* gui.renderer.CellWidth() in pixels
CellHeight == 20    \* gui.renderer.CellHeight() in pixels

\* Columns and rows the cursor is placed in: left of / above the surface,
\* the first cell, the last cell with a one-byte parameter (95 + 32 = 127),
\* the first with a two-byte one, the last cell of the protocol (223), the
\* first one beyond it, and a cell far enough for value+32 to be negative.
ColSamples == {-40, 0, 1, 2, 95, 96, 223, 224}
RowSamples == {-40, 0, 1, 2, 95, 96, 223, 224}

\* First and last pixel of each sampled column, first pixel of each row.
PixelXs == {(c - 1) * CellWidth : c \in ColSamples}
              \cup {c * CellWidth - 1 : c \in ColSamples}
PixelYs == {(r - 1) * CellHeight : r \in RowSamples}

----------------------------------------------------------------------------
(* Values of the collaborators' types *)

MouseModeNone == "MouseModeNone"
MouseModeX10 == "MouseModeX10"
MouseModeVT200 == "MouseModeVT200"
MouseModeVT200Highlight == "MouseModeVT200Highlight"
MouseModeButtonEvent == "MouseModeButtonEvent"
MouseModeAnyEvent == "MouseModeAnyEvent"

MouseModes == {MouseModeNone, MouseModeX10, MouseModeVT200,
               MouseModeVT200Highlight, MouseModeButtonEvent, MouseModeAnyEvent}

MouseButton1 == 0
MouseButton2 == 1
MouseButton3 == 2

Release == 0
Press == 1

ModShift == 1
ModControl == 2
ModSuper == 8

Buttons == 0..MaxButton
Actions == 0..MaxAction
Mods == 0..MaxMod

NoCall == [button |-> -1, action |-> -1, mod |-> -1]

----------------------------------------------------------------------------
(* Integer operators of the Go code *)

\* a & b on non-negative integers
RECURSIVE BitAnd(_, _)
BitAnd(a, b) ==
    IF a = 0 \/ b = 0 THEN 0
    ELSE (a % 2) * (b % 2) + 2 * BitAnd(a \div 2, b \div 2)

\* a | b on non-negative integers
RECURSIVE BitOr(_, _)
BitOr(a, b) ==
    IF a = 0 THEN b
    ELSE IF b = 0 THEN a
    ELSE (IF a % 2 = 1 \/ b % 2 = 1 THEN 1 ELSE 0) + 2 * BitOr(a \div 2, b \div 2)

\* int(math.Floor(p / float64(size))) + 1
Cell(p, size) == (p \div size) + 1

\* The bytes fmt's %c verb writes for a rune: its UTF-8 encoding, and the
\* encoding of U+FFFD for a negative value, a surrogate or a value beyond
\* U+10FFFF.
EncodeRune(r) ==
    IF r < 0 \/ r > 1114111 \/ (r >= 55296 /\ r <= 57343)
    THEN <<239, 191, 189>>
    ELSE IF r < 128 THEN <<r>>
    ELSE IF r < 2048 THEN <<192 + (r \div 64), 128 + (r % 64)>>
    ELSE IF r < 65536
    THEN <<224 + (r \div 4096), 128 + ((r \div 64) % 64), 128 + (r % 64)>>
    ELSE <<240 + (r \div 262144), 128 + ((r \div 4096) % 64),
           128 + ((r \div 64) % 64), 128 + (r % 64)>>

\* []byte(fmt.Sprintf("\x1b[M%c%c%c", rune(b+32), rune(x+32), rune(y+32)))
Packet(b, x, y) ==
    <<27, 91, 77>> \o EncodeRune(b + 32) \o EncodeRune(x + 32) \o EncodeRune(y + 32)

----------------------------------------------------------------------------
(* The branches of the switch on gui.terminal.GetMouseMode().  Each yields *)
(* how the callback ends and the sequence of byte strings it hands to      *)
(* gui.terminal.Write.                                                      *)

Returned(ws) == [outcome |-> "returned", written |-> ws]
Panicked == [outcome |-> "panic", written |-> <<>>]

\* ModeX10 without the test of the action
ModeX10_AnyAction(button, action, mod, px, py) ==
    Returned(<<Packet(button, Cell(px, CellWidth), Cell(py, CellHeight))>>)

\* case terminal.MouseModeX10
ModeX10(button, action, mod, px, py) ==
    IF action = Press
    THEN LET b == button
             x == Cell(px, CellWidth)
             y == Cell(py, CellHeight)
         IN  Returned(<<Packet(b, x, y)>>)
    ELSE Returned(<<>>)

\* ModeNone falling through to the X10 report
ModeNone_Reports(button, action, mod, px, py) ==
    ModeX10(button, action, mod, px, py)

\* case terminal.MouseModeNone
ModeNone(button, action, mod, px, py) == Returned(<<>>)

\* ButtonCode with a release reporting the released button's own code
ButtonCode_ReleaseButton(button, action) ==
    IF action = Press \/ action = Release
    THEN CASE button = MouseButton1 -> <<0>>
           [] button = MouseButton2 -> <<1>>
           [] button = MouseButton3 -> <<2>>
           [] OTHER -> <<>>
    ELSE <<>>

\* The low bits of the VT200 button byte, <<b>>, or <<>> where the callback
\* returns without reporting.
ButtonCode(button, action) ==
    IF action = Press
    THEN CASE button = MouseButton1 -> <<0>>
           [] button = MouseButton2 -> <<1>>
           [] button = MouseButton3 -> <<2>>
           [] OTHER -> <<>>
    ELSE IF action = Release THEN <<3>>
    ELSE <<>>

\* Modifiers with the three tests chained by else: only the first modifier
\* found is reported
Modifiers_FirstOnly(b, mod) ==
    IF BitAnd(mod, ModShift) > 0 THEN BitOr(b, 4)
    ELSE IF BitAnd(mod, ModSuper) > 0 THEN BitOr(b, 8)
    ELSE IF BitAnd(mod, ModControl) > 0 THEN BitOr(b, 16)
    ELSE b

\* The modifier bits or-ed into the button code b
Modifiers(b, mod) ==
    LET b1 == IF BitAnd(mod, ModShift) > 0 THEN BitOr(b, 4) ELSE b
        b2 == IF BitAnd(mod, ModSuper) > 0 THEN BitOr(b1, 8) ELSE b1
        b3 == IF BitAnd(mod, ModControl) > 0 THEN BitOr(b2, 16) ELSE b2
    IN  b3

\* case terminal.MouseModeVT200; b is a byte, so b + 32 is taken modulo 256
ModeVT200(button, action, mod, px, py) ==
    LET code == ButtonCode(button, action) IN
    IF code = <<>> THEN Returned(<<>>)
    ELSE LET b == Modifiers(code[1], mod)
             x == Cell(px, CellWidth)
             y == Cell(py, CellHeight)
         IN  Returned(<<Packet(((b + 32) % 256) - 32, x, y)>>)

\* cases terminal.MouseModeVT200Highlight, MouseModeButtonEvent,
\* MouseModeAnyEvent and default
ModeUnsupported(button, action, mod, px, py) == Panicked

\* switch gui.terminal.GetMouseMode()
Dispatch(mode, button, action, mod, px, py) ==
    CASE mode = MouseModeNone -> ModeNone(button, action, mod, px, py)
      [] mode = MouseModeX10 -> ModeX10(button, action, mod, px, py)
      [] mode = MouseModeVT200 -> ModeVT200(button, action, mod, px, py)
      [] OTHER -> ModeUnsupported(button, action, mod, px, py)

----------------------------------------------------------------------------
(* The state machine *)

Init ==
    /\ mouseMode = MouseModeNone
    /\ cursorX = 0
    /\ cursorY = 0
    /\ call = NoCall
    /\ outcome = "idle"
    /\ packet = <<>>
    /\ writes = 0
    /\ writeErr = FALSE

\* The terminal changes its mouse mode (DECSET/DECRST from the program).
\* The callback reads the mode once, at its switch, so a change takes effect
\* between two invocations.
SetMouseMode(m) ==
    /\ outcome = "idle"
    /\ mouseMode' = m
    /\ UNCHANGED <<cursorX, cursorY, call, outcome, packet, writes, writeErr>>

\* The pointer moves: what w.GetCursorPos() returns changes.
CursorPos(px, py) ==
    /\ outcome = "idle"
    /\ cursorX' = px
    /\ cursorY' = py
    /\ UNCHANGED <<mouseMode, call, outcome, packet, writes, writeErr>>

\* One invocation of GUI.mouseButtonCallback by the event loop.  The value
\* gui.terminal.Write returns is the sink's choice; the callback discards it.
mouseButtonCallback(button, action, mod) ==
    /\ outcome = "idle"
    /\ LET r == Dispatch(mouseMode, button, action, mod, cursorX, cursorY) IN
       /\ call' = [button |-> button, action |-> action, mod |-> mod]
       /\ outcome' = r.outcome
       /\ writes' = Len(r.written)
       /\ packet' = IF r.written = <<>> THEN <<>> ELSE r.written[1]
       /\ IF r.written = <<>> THEN writeErr' = FALSE ELSE writeErr' \in BOOLEAN
    /\ UNCHANGED <<mouseMode, cursorX, cursorY>>

\* The callback has returned: its locals are gone and the event loop waits
\* for the next event.  A panic never gets here: the process has ended.
EventLoop ==
    /\ outcome = "returned"
    /\ call' = NoCall
    /\ outcome' = "idle"
    /\ packet' = <<>>
    /\ writes' = 0
    /\ writeErr' = FALSE
    /\ UNCHANGED <<mouseMode, cursorX, cursorY>>

Next ==
    \/ \E m \in MouseModes : SetMouseMode(m)
    \/ \E px \in PixelXs, py \in PixelYs : CursorPos(px, py)
    \/ \E button \in Buttons, action \in Actions, mod \in Mods :
          mouseButtonCallback(button, action, mod)
    \/ EventLoop

Spec == Init /\ [][Next]_vars

TypeOK ==
    /\ mouseMode \in MouseModes
    /\ cursorX \in PixelXs /\ cursorY \in PixelYs
    /\ outcome \in {"idle", "returned", "panic"}
    /\ writes \in {0, 1}
    /\ writeErr \in BOOLEAN

----------------------------------------------------------------------------
(* Vocabulary of the properties *)

\* The callback has been invoked and its effects are in the state.
Called == outcome # "idle"

\* column = floor(pixelX / cellWidth) + 1, row = floor(pixelY / cellHeight) + 1
Col == (cursorX \div CellWidth) + 1
Row == (cursorY \div CellHeight) + 1

\* The modifier with mask `bit` is in the set `mod`.
HasMod(mod, bit) == (mod \div bit) % 2 = 1

\* The events normal tracking reports: a press of Button1..Button3, a release.
VT200Reported ==
    \/ call.action = Press /\ call.button \in {MouseButton1, MouseButton2, MouseButton3}
    \/ call.action = Release

\* The button code (button byte - 32) of the event of `call` had it come
\* with no modifier.
BaseCode ==
    ModeVT200(call.button, call.action, 0, cursorX, cursorY).written[1][4] - 32

\* The low two bits of the button code of the packet written.
LowBits == (packet[4] - 32) % 4

Max(a, b) == IF a > b THEN a ELSE b

UnsupportedModes == {MouseModeVT200Highlight, MouseModeButtonEvent, MouseModeAnyEvent}

----------------------------------------------------------------------------
(* The properties *)

\* C1: an event received in mode VT200Highlight, ButtonEvent or AnyEvent
\* ends with an UnsupportedMode error returned to the caller, and the
\* process is still running.
C1_UnsupportedModeIsReturned ==
    (Called /\ mouseMode \in UnsupportedModes)
        => (outcome = "UnsupportedMode" /\ outcome # "panic")

\* C2: in VT200 mode a press of Button1 with no modifiers in a cell with
\* 1 <= column, row <= 223 writes exactly the six bytes
\* 0x1B '[' 'M' 0x20 (column+32) (row+32).
C2_VT200PressIsSixBytes ==
    (Called /\ mouseMode = MouseModeVT200
        /\ call.action = Press /\ call.button = MouseButton1 /\ call.mod = 0
        /\ Col \in 1..223 /\ Row \in 1..223)
        => (writes = 1 /\ packet = <<27, 91, 77, 32, Col + 32, Row + 32>>)

\* C3: in mode None no event of any action, button, modifier set or position
\* produces a packet: the callback returns and the sink received no write.
C3_NoneWritesNothing ==
    (Called /\ mouseMode = MouseModeNone)
        => (outcome = "returned" /\ writes = 0 /\ packet = <<>>)

C3_Witness ==
    /\ Called /\ mouseMode = MouseModeNone
    /\ call.action = Press /\ call.button = MouseButton1 /\ call.mod = ModShift
    /\ cursorX > 0 /\ cursorY > 0
    /\ writes = 0

\* C4: in VT200 mode the button byte of every reported event is
\* 32 + base + 4 (Shift) + 8 (Meta, glfw's ModSuper) + 16 (Control), each
\* term present exactly when its modifier is, base being the button code of
\* the same event with no modifiers.
C4_ModifierBitsAdd ==
    (Called /\ mouseMode = MouseModeVT200 /\ VT200Reported)
        => /\ writes = 1
           /\ packet[4] = 32 + BaseCode
                  + (IF HasMod(call.mod, ModShift) THEN 4 ELSE 0)
                  + (IF HasMod(call.mod, ModSuper) THEN 8 ELSE 0)
                  + (IF HasMod(call.mod, ModControl) THEN 16 ELSE 0)

C4_Witness ==
    /\ Called /\ mouseMode = MouseModeVT200
    /\ call.action = Press /\ call.button = MouseButton3
    /\ HasMod(call.mod, ModShift) /\ HasMod(call.mod, ModSuper)
    /\ HasMod(call.mod, ModControl)
    /\ writes = 1 /\ packet[4] = 62

\* C5: in X10 mode a press of a button outside Button1..Button3 writes
\* nothing to the sink.
C5_X10OtherButtonWritesNothing ==
    (Called /\ mouseMode = MouseModeX10 /\ call.action = Press
        /\ call.button \notin {MouseButton1, MouseButton2, MouseButton3})
        => writes = 0

\* C6: every packet written in X10 or VT200 mode carries column >= 1 and
\* row >= 1: its column and row parameters are those of the coordinates
\* clamped to 1 from below.
C6_CoordinatesClampedToOne ==
    (Called /\ mouseMode \in {MouseModeX10, MouseModeVT200} /\ writes = 1)
        => SubSeq(packet, 5, Len(packet))
              = EncodeRune(Max(Col, 1) + 32) \o EncodeRune(Max(Row, 1) + 32)

\* C7: in X10 and VT200 mode an event in a column or row beyond 223 writes
\* no packet, and one that would be reported ends with CoordinateOutOfRange.
C7_OutOfRangeIsReported ==
    (Called /\ mouseMode \in {MouseModeX10, MouseModeVT200}
        /\ (Col > 223 \/ Row > 223))
        => /\ writes = 0
           /\ ((\/ mouseMode = MouseModeX10 /\ call.action = Press
                \/ mouseMode = MouseModeVT200 /\ VT200Reported)
                  => outcome = "CoordinateOutOfRange")

\* C8: at most one Write is attempted per event, and an event whose Write
\* failed ends with an IoError for the caller, unlike one whose Write
\* succeeded.
C8_WriteFailureIsSurfaced ==
    Called => /\ writes <= 1
              /\ (writes = 1 /\ writeErr) => outcome = "IoError"
              /\ (writes = 1 /\ ~writeErr) => outcome = "returned"

\* C9: in X10 mode an event whose action is not Press writes nothing, for
\* every button, modifier set and position.
C9_X10NonPressWritesNothing ==
    (Called /\ mouseMode = MouseModeX10 /\ call.action # Press)
        => (outcome = "returned" /\ writes = 0 /\ packet = <<>>)

C9_Witness ==
    /\ Called /\ mouseMode = MouseModeX10
    /\ call.action = Release /\ call.button = MouseButton2 /\ call.mod = ModControl
    /\ cursorX > 0
    /\ writes = 0

====
